---- MODULE Spec2Model ----
(***************************************************************************)
(* A model of geneticOptimization.py: the GeneticOptimization engine       *)
(* (__init__, optimize, iterate, getNewIndividual, outputInfo) and the     *)
(* Strategy individual (__init__, mutate).                                 *)
(*                                                                         *)
(* Individuals are heap objects: `generation` holds references (ids), and  *)
(* `heap` maps each live id to the object's fields.  Ids are names of      *)
(* object identities, not addresses: selection renames the survivors 1..k  *)
(* in their sorted order (Rename), which changes no object, and `selected` *)
(* records which object each survivor was.                                 *)
(*                                                                         *)
(* Real numbers are modelled on an integer grid: accelerations and         *)
(* perturbations in units of 1.0, probabilities in tenths (RateScale).     *)
(* The simulation and the fitness function are external: the fitness of a  *)
(* new individual is any value of FitnessValues, and constructing one may  *)
(* raise.                                                                  *)
(***************************************************************************)
EXTENDS Integers, Sequences, FiniteSets, TLC

\* ------------------------------------------------------------------ bounds
MaxIndividuals == 3
MaxIterations == 2
ReportIterations == 1001
\* longest parameter vector handed to Strategy directly (SpecMutate)
MaxSteps == 2

\* ------------------------------------------------------- program constants
\* constants.MIN_ACC, constants.MAX_ACC, constants.NUM_STEPS (module constants)
MIN_ACC == -1
MAX_ACC == 1
NUM_STEPS == 1
\* __init__: proportionGeneratedThroughMutation = 1.0, mutationParameter = 0.9
defaultProportion == 10
defaultMutationParameter == 9
\* maxChange = 1.0 in Strategy.mutate
maxChange == 1

\* probabilities are counted in tenths: 1.0 is the default proportion
RateScale == defaultProportion
\* the values evaluation.totalPerformance may return
FitnessValues == {0, 1, 2}
\* the values random.random() may return, in tenths: 0.0, 0.5, 0.9 (never 1.0)
RandomDraws == {0, 5, 9}

\* Python's None, where a reference to an individual is expected
None == 0

VARIABLES
    numIndividuals,                      \* self.numIndividuals
    numAfterCulling,                     \* self.numAfterCulling
    proportionGeneratedThroughMutation,  \* in tenths
    mutationParameter,                   \* in tenths
    numIterations,                       \* self.numIterations
    numGeneration,                       \* self.numGeneration
    generation,                          \* self.generation: sequence of ids (or None)
    heap,                                \* id -> [acceleration, fitness] of the live objects
    newIndividuals,                      \* the list iterate() is building (line 42)
    rangeNext,                           \* next value of range(numIterations) in optimize()
    pc,                                  \* position of the single thread of control
    error,                               \* the exception that ended the run, or "none"
    \* ---- history variables (not read by the program)
    born,                                \* id -> fields the object was constructed with
    iterateCalls,                        \* number of iterate() calls started
    parents,                             \* parent of each element of newIndividuals (None: no mutate)
    selected,                            \* ids, before selection, of the survivors just selected
    culled,                              \* ids, before selection, of the individuals just dropped
    lastMutate,                          \* the draws of the last mutate call of this generation
    bestReports,                         \* best-individual reports made in this generation
    trajectoryReports,                   \* trajectory reports made in this generation
    reportedBest,                        \* id of the individual last reported as best (or None)
    eliteMin,                            \* lowest fitness among this generation's survivors
    prevEliteMin,                        \* the same for the previous generation
    factoryCalls,                        \* calls of self.individualFactory made so far
    reportedTrajectory,                  \* the individuals whose logs the last trajectory report showed
    startBest,                           \* best fitness in the population when the last iterate() call began
    tiedCulled                           \* ids, before selection, of the dropped that tie with a survivor

config == <<numIndividuals, numAfterCulling, proportionGeneratedThroughMutation,
            mutationParameter, numIterations>>
history == <<born, iterateCalls, parents, selected, culled, lastMutate, bestReports,
             trajectoryReports, reportedBest, eliteMin, prevEliteMin, factoryCalls,
             reportedTrajectory,
             startBest,
             tiedCulled>>
vars == <<config, numGeneration, generation, heap, newIndividuals, rangeNext,
          pc, error, history>>

\* ----------------------------------------------------------------- helpers
Min(a, b) == IF a <= b THEN a ELSE b
Max(a, b) == IF a >= b THEN a ELSE b
Range(s) == {s[i] : i \in 1..Len(s)}
\* "no fitness": below every fitness value
NoValue == 0 - 1
NoMutate == [called |-> FALSE]
\* the highest fitness among the individuals of a list (None elements have
\* none), NoValue if it holds no individual
BestFitness(h, s) ==
    LET fs == {h[s[i]].fitness : i \in {j \in 1..Len(s) : s[j] # None}}
    IN IF fs = {} THEN NoValue ELSE CHOOSE f \in fs : \A g \in fs : g <= f

\* mutants of Truncate: the last k elements kept; one element too few kept
TruncateKeepsLast(s, k) ==
    IF k >= 0 THEN SubSeq(s, Len(s) - Min(k, Len(s)) + 1, Len(s))
    ELSE SubSeq(s, 1, Max(0, Len(s) + k))
TruncateOneShort(s, k) ==
    IF k >= 1 THEN SubSeq(s, 1, Min(k, Len(s)) - 1)
    ELSE SubSeq(s, 1, Max(0, Len(s) + k))

\* mutant of Truncate: the slice is not taken where it stands, the whole
\* sorted list goes on to the report
TruncateSkipped(s, k) == s

\* seq[:k] of Python, also for a negative k
Truncate(s, k) ==
    IF k >= 0 THEN SubSeq(s, 1, Min(k, Len(s)))
    ELSE SubSeq(s, 1, Max(0, Len(s) + k))

\* seq[k:] of Python for the same k: what Truncate drops
Dropped(s, k) == SubSeq(s, Len(Truncate(s, k)) + 1, Len(s))

\* mutant of InsertDescending: x goes before the elements of its own fitness
InsertBeforeEquals(h, s, x) ==
    LET n == Cardinality({i \in 1..Len(s) : h[s[i]].fitness > h[x].fitness})
    IN SubSeq(s, 1, n) \o <<x>> \o SubSeq(s, n + 1, Len(s))

\* list.sort(key=lambda x: x.fitness, reverse=True): stable, descending.
\* x goes behind every element whose fitness is at least its own.
InsertDescending(h, s, x) ==
    LET n == Cardinality({i \in 1..Len(s) : h[s[i]].fitness >= h[x].fitness})
    IN SubSeq(s, 1, n) \o <<x>> \o SubSeq(s, n + 1, Len(s))

\* mutant of SortByFitness: reverse=True forgotten, the sort ascends
RECURSIVE SortAscending(_, _)
SortAscending(h, s) ==
    IF s = <<>> THEN <<>>
    ELSE LET r == SortAscending(h, SubSeq(s, 1, Len(s) - 1))
             x == s[Len(s)]
             n == Cardinality({i \in 1..Len(r) : h[r[i]].fitness <= h[x].fitness})
         IN SubSeq(r, 1, n) \o <<x>> \o SubSeq(r, n + 1, Len(r))

RECURSIVE SortByFitness(_, _)
SortByFitness(h, s) ==
    IF s = <<>> THEN <<>>
    ELSE InsertDescending(h, SortByFitness(h, SubSeq(s, 1, Len(s) - 1)), s[Len(s)])

\* max(self.generation, key=fitness): the first of the maximal elements
FittestOf(h, s) ==
    LET best == CHOOSE i \in 1..Len(s) :
                    /\ \A j \in 1..Len(s) : h[s[j]].fitness <= h[s[i]].fitness
                    /\ \A j \in 1..(i - 1) : h[s[j]].fitness < h[s[i]].fitness
    IN s[best]

\* lowest fitness among the individuals of a non-empty list
MinFitness(h, s) ==
    CHOOSE f \in {h[x].fitness : x \in Range(s)} :
        \A x \in Range(s) : f <= h[x].fitness

\* mutant of choice: the replacements made so far can be drawn too
choiceAmongAll(s) == Range(s) \cup (Range(newIndividuals) \ {None})

\* random.choice(seq): the elements it may return
choice(s) == Range(s)

\* mutant of reportsBest: generations counted from 1
reportsBestFromOne(g) == (g + 1) % 100 = 0

\* outputInfo, line 56 and line 58: the conditions of the two reports
reportsBest(g) == g % 100 = 0
reportsTrajectory(g) == g % 1000 = 0

\* a fresh object identity: the lowest id no live object has
NewId(h) == CHOOSE i \in 1..(Cardinality(DOMAIN h) + 1) : i \notin DOMAIN h

\* the objects the list `kept` refers to, named 1..Len(kept) in its order;
\* objects no list refers to any more are freed (reference counting)
Rename(h, kept) == [i \in 1..Len(kept) |-> h[kept[i]]]

\* ---------------------------------------------------------------- Strategy
\* mutant of Clip: the lower limit forgotten
ClipAbove(v) == Min(v, MAX_ACC)

\* np.clip(v, a_min=MIN_ACC, a_max=MAX_ACC), one component
Clip(v) == Min(Max(v, MIN_ACC), MAX_ACC)

\* mutant of Binomial: a draw compared with p the wrong way round, so that
\* p = 1 selects nothing and p = 0 everything
BinomialInverted(p, size) ==
    {m \in [1..size -> {0, 1}] :
        \A i \in 1..size : /\ (p = 0 => m[i] = 1)
                           /\ (p = RateScale => m[i] = 0)}

\* np.random.binomial(n=1, p, size): the vectors it may return
Binomial(p, size) ==
    {m \in [1..size -> {0, 1}] :
        \A i \in 1..size : /\ (p = 0 => m[i] = 0)
                           /\ (p = RateScale => m[i] = 1)}

\* np.random.uniform(low, high, size): the vectors it may return
Uniform(low, high, size) == [1..size -> low..high]

\* lines 93-95 of mutate: the parameter vector handed to the new Strategy
mutateValues(acceleration, doChange, changeAmount) ==
    [i \in 1..Len(acceleration) |->
        Clip(acceleration[i] + doChange[i] * changeAmount[i])]

\* Strategy.__init__ with the fitness the evaluation returned
Strategy(acceleration, fitness) ==
    [acceleration |-> acceleration, fitness |-> fitness]

\* strategyFactory: the individuals it may return
strategyFactory ==
    {Strategy(a, f) : a \in Uniform(0, MAX_ACC, NUM_STEPS), f \in FitnessValues}

\* mutant of HeapAfterMutate: the new values are written into the parent's
\* array too (self.acceleration += effectiveChange)
HeapAfterMutateInPlace(h, parent, id, child) ==
    [i \in (DOMAIN h) \cup {id} |->
        IF i = id THEN child
        ELSE IF i = parent THEN [h[i] EXCEPT !.acceleration = child.acceleration]
        ELSE h[i]]

\* the heap after parent.mutate(...) built the object `child` at `id`:
\* the parent's fields are read, never written
HeapAfterMutate(h, parent, id, child) ==
    [i \in (DOMAIN h) \cup {id} |-> IF i = id THEN child ELSE h[i]]

\* -------------------------------------------------------------------- Init
\* GeneticOptimization.__init__ has returned; optimize() is about to run.
Constructed ==
    /\ numGeneration = 0
    /\ generation = [i \in 1..numIndividuals |-> i]
    /\ heap \in [1..numIndividuals -> strategyFactory]
    /\ factoryCalls = numIndividuals
    /\ born = heap
    /\ newIndividuals = <<>>
    /\ rangeNext = 0
    /\ pc = "optimize"
    /\ error = "none"
    /\ iterateCalls = 0
    /\ parents = <<>>
    /\ selected = <<>>
    /\ culled = <<>>
    /\ tiedCulled = {}
    /\ lastMutate = NoMutate
    /\ bestReports = 0
    /\ trajectoryReports = 0
    /\ reportedBest = None
    /\ startBest = NoValue
    /\ reportedTrajectory = <<>>
    /\ eliteMin = NoValue
    /\ prevEliteMin = NoValue

Init ==
    /\ numIndividuals \in 1..MaxIndividuals
    /\ numAfterCulling \in (-1)..(numIndividuals + 1)
    \* the population never holds more than MaxIndividuals + 1 objects
    /\ numAfterCulling < 0 => 2 * numIndividuals <= MaxIndividuals + 1
    /\ proportionGeneratedThroughMutation \in {5, defaultProportion}
    /\ mutationParameter = defaultMutationParameter
    /\ numIterations \in 0..MaxIterations
    /\ Constructed

\* ----------------------------------------------------------------- actions
\* mutant of Raise: optimize() catches the exception and goes on with the
\* next value of the range
RaiseCaught(e) ==
    /\ pc' = "optimize"
    /\ error' = e

\* an exception nothing catches: it leaves iterate() and optimize()
Raise(e) ==
    /\ pc' = "raised"
    /\ error' = e

\* mutant of rangeValue: the generations are numbered from 1
rangeValueFromOne(i) == i + 1

\* range(self.numIterations), line 52: the value it yields at position i
rangeValue(i) == i

\* optimize(), line 52: the for statement takes the next value of the range,
\* stores it in self.numGeneration and calls iterate(), or ends the loop
OptimizeNext ==
    /\ pc = "optimize"
    /\ IF rangeNext < numIterations
       THEN /\ numGeneration' = rangeValue(rangeNext)
            /\ rangeNext' = rangeNext + 1
            /\ iterateCalls' = iterateCalls + 1
            /\ startBest' = BestFitness(heap, generation)
            /\ pc' = "select"
       ELSE /\ pc' = "done"
            /\ UNCHANGED <<numGeneration, rangeNext, iterateCalls, startBest>>
    /\ bestReports' = 0
    /\ trajectoryReports' = 0
    /\ reportedBest' = None
    /\ reportedTrajectory' = <<>>
    /\ UNCHANGED <<config, generation, heap, newIndividuals, error, born, parents,
                   selected, culled, lastMutate, eliteMin, prevEliteMin,
                   factoryCalls,
                   tiedCulled>>

\* iterate(), lines 38-39: sort by fitness, descending, and keep the first
\* numAfterCulling; the key function raises on a None element
IterateSelect ==
    /\ pc = "select"
    /\ IF None \in Range(generation)
       THEN /\ Raise("AttributeError")
            /\ UNCHANGED <<generation, heap, born, selected, culled, eliteMin,
                           prevEliteMin, tiedCulled>>
       ELSE LET sorted == SortByFitness(heap, generation)
                kept == Truncate(sorted, numAfterCulling)
            IN /\ generation' = [i \in 1..Len(kept) |-> i]
               /\ heap' = Rename(heap, kept)
               /\ born' = Rename(born, kept)
               /\ selected' = kept
               /\ culled' = Dropped(sorted, numAfterCulling)
               /\ tiedCulled' = {d \in Range(culled') : \E k \in Range(kept) :
                                    heap[k].fitness = heap[d].fitness}
               /\ prevEliteMin' = eliteMin
               /\ eliteMin' = IF kept = <<>> THEN NoValue
                              ELSE MinFitness(heap, kept)
               /\ pc' = "report"
               /\ error' = error
    /\ UNCHANGED <<config, numGeneration, newIndividuals, rangeNext, iterateCalls,
                   parents, lastMutate, bestReports, trajectoryReports, reportedBest,
                   factoryCalls,
                   reportedTrajectory,
                   startBest>>

\* outputInfo(), lines 55-59, called from line 40.  max() of an empty list
\* raises; print and visualization.showTrajectory may raise.
OutputInfo ==
    /\ pc = "report"
    /\ LET best == reportsBest(numGeneration)
           trajectory == reportsTrajectory(numGeneration)
       IN \E bestOk \in (IF best /\ generation # <<>> THEN BOOLEAN ELSE {TRUE}),
             trajectoryOk \in (IF trajectory THEN BOOLEAN ELSE {TRUE}) :
            IF best /\ generation = <<>>
            THEN /\ Raise("ValueError")
                 /\ UNCHANGED <<bestReports, trajectoryReports, reportedBest,
                                reportedTrajectory>>
            ELSE /\ bestReports' = IF best THEN bestReports + 1 ELSE bestReports
                 /\ reportedBest' = IF best THEN FittestOf(heap, generation)
                                    ELSE reportedBest
                 /\ IF ~bestOk
                    THEN /\ Raise("ReporterError")
                         /\ UNCHANGED <<trajectoryReports, reportedTrajectory>>
                    ELSE /\ trajectoryReports' = IF trajectory THEN trajectoryReports + 1
                                                 ELSE trajectoryReports
                         /\ reportedTrajectory' = IF trajectory THEN generation
                                                  ELSE reportedTrajectory
                         /\ IF ~trajectoryOk
                            THEN Raise("ReporterError")
                            ELSE /\ pc' = "replenish"
                                 /\ error' = error
    /\ newIndividuals' = <<>>
    /\ parents' = <<>>
    /\ lastMutate' = NoMutate
    /\ selected' = <<>>
    /\ culled' = <<>>
    /\ tiedCulled' = {}
    /\ UNCHANGED <<config, numGeneration, generation, heap, rangeNext, born,
                   iterateCalls, eliteMin, prevEliteMin, factoryCalls,
                   startBest>>

\* mutant of numToReplenish: one replacement too few
numToReplenishOneShort == numIndividuals - numAfterCulling - 1

\* line 41
numToReplenish == numIndividuals - numAfterCulling

\* mutant of returnsWithoutMutation: an else branch that asks the factory
\* for a fresh individual
returnsFromFactory(h) ==
    {[heap |-> [i \in (DOMAIN h) \cup {NewId(h)} |->
                    IF i \in DOMAIN h THEN h[i] ELSE made],
      value |-> NewId(h),
      factoryCalls |-> 1] : made \in strategyFactory}

\* getNewIndividual() when the condition of line 47 is false: the method has
\* no else branch, it falls off its end and returns None; nothing is
\* constructed and the factory is not called
returnsWithoutMutation(h) ==
    {[heap |-> h, value |-> None, factoryCalls |-> 0]}

\* getNewIndividual(), lines 46-49, once per value of range(numToReplenish)
\* in line 42.
GetNewIndividual ==
    /\ pc = "replenish"
    /\ Len(newIndividuals) < numToReplenish
    /\ \E r \in RandomDraws :
        IF r < proportionGeneratedThroughMutation
        THEN IF generation = <<>>
             THEN /\ Raise("IndexError")
                  /\ UNCHANGED <<heap, born, newIndividuals, parents, lastMutate,
                                 factoryCalls>>
             ELSE \E parent \in choice(generation),
                     raises \in BOOLEAN :
                    LET size == Len(heap[parent].acceleration)
                    IN
                    \E doChange \in Binomial(mutationParameter, size),
                       changeAmount \in Uniform(-maxChange, maxChange, size) :
                    LET id == NewId(heap)
                        values == mutateValues(heap[parent].acceleration,
                                               doChange, changeAmount)
                    IN IF raises
                       THEN /\ Raise("CollaboratorError")
                            /\ UNCHANGED <<heap, born, newIndividuals, parents,
                                           lastMutate, factoryCalls>>
                       ELSE \E fitness \in FitnessValues :
                            LET child == Strategy(values, fitness)
                            IN /\ heap' = HeapAfterMutate(heap, parent, id, child)
                               /\ born' = [i \in (DOMAIN born) \cup {id} |->
                                              IF i = id THEN child ELSE born[i]]
                               /\ newIndividuals' = Append(newIndividuals, id)
                               /\ parents' = Append(parents, parent)
                               /\ UNCHANGED <<lastMutate, pc, error, factoryCalls>>
        ELSE \E ret \in returnsWithoutMutation(heap) :
             /\ heap' = ret.heap
             /\ born' = [i \in DOMAIN ret.heap |->
                            IF i \in DOMAIN born THEN born[i] ELSE ret.heap[i]]
             /\ factoryCalls' = factoryCalls + ret.factoryCalls
             /\ newIndividuals' = Append(newIndividuals, ret.value)
             /\ parents' = Append(parents, None)
             /\ UNCHANGED <<lastMutate, pc, error>>
    /\ UNCHANGED <<config, numGeneration, generation, rangeNext, iterateCalls,
                   selected, culled, bestReports, trajectoryReports, reportedBest,
                   eliteMin, prevEliteMin,
                   reportedTrajectory,
                   startBest,
                   tiedCulled>>

\* iterate(), lines 43-44: append the new individuals and assert the size
IterateAppend ==
    /\ pc = "replenish"
    /\ Len(newIndividuals) >= numToReplenish
    /\ generation' = generation \o newIndividuals
    /\ newIndividuals' = <<>>
    /\ parents' = <<>>
    /\ lastMutate' = NoMutate
    /\ IF Len(generation') = numIndividuals
       THEN /\ pc' = "optimize"
            /\ error' = error
       ELSE Raise("AssertionError")
    /\ UNCHANGED <<config, numGeneration, heap, rangeNext, born, iterateCalls,
                   selected, culled, bestReports, trajectoryReports, reportedBest,
                   eliteMin, prevEliteMin, factoryCalls,
                   reportedTrajectory,
                   startBest,
                   tiedCulled>>

Next ==
    \/ OptimizeNext
    \/ IterateSelect
    \/ OutputInfo
    \/ GetNewIndividual
    \/ IterateAppend

Spec == Init /\ [][Next]_vars

\* ------------------------------------------------- a long run of optimize()
\* A small population run for ReportIterations generations, so that the
\* generations outputInfo reports in (0, 100, ..., 1000) all happen.
InitReport ==
    /\ numIndividuals = 2
    /\ numAfterCulling = 1
    /\ proportionGeneratedThroughMutation = defaultProportion
    /\ mutationParameter = defaultMutationParameter
    /\ numIterations = ReportIterations
    /\ Constructed

SpecReport == InitReport /\ [][Next]_vars

\* ------------------------------------------------- Strategy.mutate on its own
\* A caller builds a Strategy from any parameter vector, calls mutate on it
\* and goes on with the individual mutate returned.  Object 1 is the
\* individual mutate is called on, object 2 the one the call returned.
ParameterVectors ==
    UNION {[1..n -> (MIN_ACC - maxChange)..(MAX_ACC + maxChange)] : n \in 1..MaxSteps}

InitMutate ==
    /\ numIndividuals = 1
    /\ numAfterCulling = 1
    /\ proportionGeneratedThroughMutation = defaultProportion
    /\ mutationParameter \in {0, 5, defaultMutationParameter, RateScale}
    /\ numIterations = 0
    /\ numGeneration = 0
    /\ generation = <<1>>
    /\ \E a \in ParameterVectors, f \in FitnessValues :
            heap = <<Strategy(a, f)>>
    /\ factoryCalls = 0
    /\ born = heap
    /\ newIndividuals = <<>>
    /\ rangeNext = 0
    /\ pc = "mutate"
    /\ error = "none"
    /\ iterateCalls = 0
    /\ parents = <<>>
    /\ selected = <<>>
    /\ culled = <<>>
    /\ tiedCulled = {}
    /\ lastMutate = NoMutate
    /\ bestReports = 0
    /\ trajectoryReports = 0
    /\ reportedBest = None
    /\ startBest = NoValue
    /\ reportedTrajectory = <<>>
    /\ eliteMin = NoValue
    /\ prevEliteMin = NoValue

\* parent.mutate(mutationParameter), lines 82-96, for the parent the caller holds
MutateCall ==
    /\ pc = "mutate"
    /\ \E raises \in BOOLEAN :
        LET parent == generation[1]
            size == Len(heap[parent].acceleration)
        IN
        \E doChange \in Binomial(mutationParameter, size),
           changeAmount \in Uniform(-maxChange, maxChange, size) :
        LET id == NewId(heap)
            values == mutateValues(heap[parent].acceleration, doChange, changeAmount)
        IN IF raises
           THEN /\ Raise("CollaboratorError")
                /\ UNCHANGED <<heap, born, lastMutate>>
           ELSE \E fitness \in FitnessValues :
                LET child == Strategy(values, fitness)
                IN /\ heap' = HeapAfterMutate(heap, parent, id, child)
                   /\ born' = [i \in (DOMAIN born) \cup {id} |->
                                  IF i = id THEN child ELSE born[i]]
                   /\ lastMutate' =
                        [called |-> TRUE, parent |-> parent,
                         before |-> heap[parent].acceleration,
                         rate |-> mutationParameter,
                         doChange |-> doChange,
                         changeAmount |-> changeAmount, child |-> id]
                   /\ pc' = "mutated"
                   /\ error' = error
    /\ UNCHANGED <<config, numGeneration, generation, newIndividuals, rangeNext,
                   iterateCalls, parents, selected, culled, bestReports,
                   trajectoryReports, reportedBest, eliteMin, prevEliteMin,
                   factoryCalls,
                   reportedTrajectory,
                   startBest,
                   tiedCulled>>

\* the caller drops the parent and keeps the individual mutate returned
MutateReturn ==
    /\ pc = "mutated"
    /\ heap' = Rename(heap, <<lastMutate.child>>)
    /\ born' = Rename(born, <<lastMutate.child>>)
    /\ lastMutate' = NoMutate
    /\ pc' = "mutate"
    /\ UNCHANGED <<config, numGeneration, generation, newIndividuals, rangeNext,
                   error, iterateCalls, parents, selected, culled, bestReports,
                   trajectoryReports, reportedBest, eliteMin, prevEliteMin,
                   factoryCalls,
                   reportedTrajectory,
                   startBest,
                   tiedCulled>>

NextMutate ==
    \/ MutateCall
    \/ MutateReturn

SpecMutate == InitMutate /\ [][NextMutate]_vars

\* ====================================================================
\* The claims
\* ====================================================================
ValidConfig == 0 < numAfterCulling /\ numAfterCulling < numIndividuals
Running == error = "none"
\* between two iterate() calls, or after the last one
AtBoundary == pc \in {"optimize", "done"}
IsDescending(h, s) ==
    \A i \in 1..(Len(s) - 1) : h[s[i]].fitness >= h[s[i + 1]].fitness

\* C1: with 0 < numAfterCulling < numIndividuals the population holds exactly
\* numIndividuals elements after construction and at the start and the end of
\* every iterate() call, and the size assertion of iterate() never fails.
C1_PopulationSize ==
    ValidConfig =>
        /\ error # "AssertionError"
        /\ (Running /\ (AtBoundary \/ pc = "select"))
              => Len(generation) = numIndividuals

\* C1 witness: two iterate() calls have ended, each having dropped two
\* individuals and made two
C1_Witness ==
    /\ ValidConfig /\ Running /\ pc = "optimize" /\ iterateCalls = 2
    /\ numIndividuals - numAfterCulling = 2
    /\ Len(generation) = numIndividuals

\* C2: selection keeps exactly the numAfterCulling fittest individuals of the
\* population it found (nothing dropped is fitter than anything kept), and
\* when iterate() ends they stand first, unmodified and in descending
\* order of fitness, followed by the numToReplenish new elements.
C2_SelectStep ==
    (pc = "select" /\ pc' = "report") =>
        /\ Len(selected') = numAfterCulling
        /\ Range(selected') \cup Range(culled') = Range(generation)
        /\ Len(selected') + Len(culled') = Len(generation)
        /\ \A d \in Range(culled'), k \in Range(selected') :
                heap[d].fitness <= heap[k].fitness
        /\ Len(generation') = numAfterCulling
        /\ \A i \in 1..numAfterCulling :
                heap'[generation'[i]] = heap[selected'[i]]
        /\ IsDescending(heap', generation')
C2_RefillStep ==
    (pc = "replenish" /\ Len(generation) = numAfterCulling) =>
        /\ SubSeq(generation', 1, numAfterCulling) = generation
        /\ \A i \in 1..numAfterCulling :
                heap'[generation'[i]] = heap[generation[i]]
        /\ pc' = "optimize" =>
              /\ Len(generation') = numIndividuals
              /\ SubSeq(generation', numAfterCulling + 1, numIndividuals)
                    = newIndividuals
              /\ Len(newIndividuals) = numIndividuals - numAfterCulling
              /\ Range(newIndividuals) \cap Range(generation) = {}
              /\ IsDescending(heap', SubSeq(generation', 1, numAfterCulling))
\* C2 (the formula): every selection step and every step of the refill up to
\* the append satisfies the two conditions above.
C2_EliteKept ==
    [][ValidConfig => (C2_SelectStep /\ C2_RefillStep)]_vars

\* C2 witness: a second iterate() has ended whose selection raised the lowest
\* fitness of the elite: an individual of the first elite was dropped for a
\* fitter replacement
C2_Witness ==
    /\ ValidConfig /\ Running /\ pc = "optimize" /\ iterateCalls = 2
    /\ numAfterCulling = 2
    /\ prevEliteMin # NoValue /\ eliteMin > prevEliteMin
    /\ None \notin Range(generation)

\* C3: when no collaborator raises, optimize() makes exactly numIterations
\* calls of iterate() and then returns: it never makes more, and it neither
\* returns nor is aborted before the last of them has ended.
C3_ExactlyNumIterations ==
    (ValidConfig /\ error \notin {"CollaboratorError", "ReporterError"}) =>
        /\ iterateCalls <= numIterations
        /\ pc = "done" => iterateCalls = numIterations
        /\ pc # "raised"

\* C4: with proportionGeneratedThroughMutation = 1.0 every replacement made
\* in a generation is the mutation of one of the survivors of that
\* generation's selection, never of a replacement made before it.
C4_ParentsAreSurvivors ==
    proportionGeneratedThroughMutation = defaultProportion =>
        /\ Len(parents) = Len(newIndividuals)
        /\ \A i \in 1..Len(newIndividuals) :
            /\ newIndividuals[i] # None
            /\ parents[i] \in Range(generation)
            /\ parents[i] \notin Range(newIndividuals)
            /\ LET a == heap[parents[i]].acceleration
                   b == heap[newIndividuals[i]].acceleration
               IN /\ Len(b) = Len(a)
                  /\ \A j \in 1..Len(a) :
                        /\ b[j] - a[j] \in (-maxChange)..maxChange
                        /\ b[j] \in MIN_ACC..MAX_ACC

\* C4 witness: the one survivor is the parent of two different replacements
C4_Witness ==
    /\ proportionGeneratedThroughMutation = defaultProportion
    /\ ValidConfig /\ pc = "replenish" /\ Len(newIndividuals) = 2
    /\ parents[1] = parents[2]
    /\ heap[newIndividuals[1]].acceleration # heap[newIndividuals[2]].acceleration
    /\ heap[newIndividuals[1]].acceleration # heap[parents[1]].acceleration

\* C5: in generation g of optimize(), counted from 0, the best individual is
\* reported once if g is a multiple of 100 and not at all otherwise, and the
\* trajectories once if g is a multiple of 1000 and not at all otherwise.
C5_ReportSchedule ==
    /\ bestReports <= 1
    /\ trajectoryReports <= 1
    /\ (Running /\ (pc = "replenish" \/ (pc = "optimize" /\ iterateCalls > 0))) =>
        /\ numGeneration = iterateCalls - 1
        /\ bestReports = (IF numGeneration % 100 = 0 THEN 1 ELSE 0)
        /\ trajectoryReports = (IF numGeneration % 1000 = 0 THEN 1 ELSE 0)

\* C5 witness: generation 1000 has made both reports
C5_Witness ==
    /\ Running /\ pc = "replenish" /\ numGeneration = 1000
    /\ bestReports = 1 /\ trajectoryReports = 1

\* what the last mutate call read and returned
Before == lastMutate.before
Child == heap[lastMutate.child].acceleration
Perturbed(i) == Before[i] + lastMutate.doChange[i] * lastMutate.changeAmount[i]

\* C6: every component of the vector of the individual mutate returns lies
\* in [MIN_ACC, MAX_ACC], whatever the parent, the rate and the draws; a
\* component the perturbation takes above MAX_ACC is MAX_ACC, one it takes
\* below MIN_ACC is MIN_ACC.
C6_Clamped ==
    lastMutate.called =>
        /\ Len(Child) = Len(Before)
        /\ \A i \in 1..Len(Child) :
            /\ MIN_ACC <= Child[i] /\ Child[i] <= MAX_ACC
            /\ Perturbed(i) > MAX_ACC => Child[i] = MAX_ACC
            /\ Perturbed(i) < MIN_ACC => Child[i] = MIN_ACC

\* C6 witness: a parent inside the range, one component taken above MAX_ACC
\* by its perturbation and another below MIN_ACC
C6_Witness ==
    /\ lastMutate.called
    /\ \A i \in 1..Len(Before) : Before[i] \in MIN_ACC..MAX_ACC
    /\ \E i, j \in 1..Len(Before) :
        /\ lastMutate.doChange[i] = 1 /\ Perturbed(i) > MAX_ACC
        /\ lastMutate.doChange[j] = 1 /\ Perturbed(j) < MIN_ACC

C8_Immutable ==
    /\ DOMAIN born = DOMAIN heap
    /\ \A id \in DOMAIN heap : heap[id] = born[id]

\* C8 witness: in its second generation a survivor has been the parent of
\* two replacements whose vectors differ from its own
C8_Witness ==
    /\ iterateCalls = 2 /\ pc = "replenish" /\ Len(newIndividuals) = 2
    /\ parents[1] # None /\ parents[1] = parents[2]
    /\ \A i \in 1..2 :
          heap[newIndividuals[i]].acceleration # heap[parents[1]].acceleration

\* C9: the lowest fitness among the survivors selected in a generation is
\* at least the lowest fitness among the survivors of the generation before.
C9_EliteNeverRegresses ==
    (prevEliteMin # NoValue /\ eliteMin # NoValue) => eliteMin >= prevEliteMin

\* C9 witness: the second selection is over; it dropped a replacement of the
\* first generation, kept another and so raised the elite's lowest fitness
\* (before selection the replacements are the ids above numAfterCulling)
C9_Witness ==
    /\ ValidConfig /\ iterateCalls = 2 /\ pc = "report"
    /\ prevEliteMin # NoValue /\ eliteMin > prevEliteMin
    /\ \E d \in Range(culled) : d > numAfterCulling
    /\ \E k \in Range(selected) : k > numAfterCulling

DefectiveConfig == numAfterCulling >= numIndividuals
IterateEnded == AtBoundary /\ iterateCalls >= 1

\* C10 as claimed: with numAfterCulling >= numIndividuals construction is not
\* rejected and the run fails by the size assertion at the end of iterate(),
\* so no iterate() call ends normally.
C10_AsClaimed ==
    DefectiveConfig => ~IterateEnded

\* C10 amended: with numAfterCulling >= numIndividuals construction is not
\* rejected and the size assertion never fails either: iterate() drops
\* nothing and creates nothing, the population keeps its numIndividuals
\* individuals, and only a failing report can end the run early.
C10_DefectRunsOn ==
    DefectiveConfig =>
        /\ error \in {"none", "ReporterError"}
        /\ newIndividuals = <<>>
        /\ Len(generation) = numIndividuals
        /\ Range(generation) = 1..numIndividuals
        /\ pc = "done" => iterateCalls = numIterations

\* C10 witness: numAfterCulling > numIndividuals and optimize() has returned
\* after two iterate() calls
C10_Witness ==
    /\ numAfterCulling > numIndividuals
    /\ pc = "done" /\ Running /\ iterateCalls = 2
    /\ Len(generation) = numIndividuals

\* C11: a failure of mutate (or of the construction it performs) during a
\* generation is neither caught nor retried: the step that raises is a step
\* of the regeneration, it ends the run where it stands (no further value of
\* the range is taken, no further iterate() call is started), and no step
\* of the program follows it.
C11_FailurePropagates ==
    [][/\ error # "CollaboratorError"
       /\ error' = "CollaboratorError" =>
            /\ pc = "replenish" /\ pc' = "raised"
            /\ numGeneration' = numGeneration
            /\ rangeNext' = rangeNext
            /\ iterateCalls' = iterateCalls]_vars

\* C11 witness: mutate raised in generation 0 of a run of two generations,
\* and generation 1 was never started
C11_Witness ==
    /\ pc = "raised" /\ error = "CollaboratorError"
    /\ numIterations = 2 /\ numGeneration = 0
    /\ rangeNext = 1 /\ iterateCalls = 1

\* C12 as claimed: a failure of a progress report (the best-individual report
\* or the trajectory report) never ends the run.
C12_ReportFailureTolerated ==
    ~(pc = "raised" /\ error = "ReporterError")

\* C13: the factory is called numIndividuals times, all of them during
\* construction: no step of optimize() or iterate() calls it.  Every
\* individual iterate() makes for the population is what mutate returned for
\* a parent that stands in the population (a None element is no individual).
C13_FactoryOnlyAtConstruction ==
    /\ factoryCalls = numIndividuals
    /\ Len(parents) = Len(newIndividuals)
    /\ \A i \in 1..Len(newIndividuals) :
            newIndividuals[i] # None =>
                /\ parents[i] # None
                /\ parents[i] \in Range(generation)
                /\ newIndividuals[i] \notin Range(generation)

\* C13 witness: in the second generation of a run that mutates only half of
\* the time, one slot was filled by mutate and one was left without an
\* individual, and the factory was not called again
C13_Witness ==
    /\ proportionGeneratedThroughMutation < defaultProportion
    /\ pc = "replenish" /\ iterateCalls = 2 /\ Len(newIndividuals) = 2
    /\ \E i, j \in 1..2 : newIndividuals[i] # None /\ newIndividuals[j] = None
    /\ factoryCalls = numIndividuals

\* C14 as claimed: with 0 <= proportionGeneratedThroughMutation <= 1 and
\* numAfterCulling < numIndividuals, every element the population holds at
\* the end of an iterate() call is an individual with a fitness, never an
\* empty placeholder.
C14_NoEmptyPlaceholder ==
    (/\ proportionGeneratedThroughMutation \in 0..RateScale
     /\ numAfterCulling < numIndividuals
     /\ IterateEnded) =>
        \A i \in 1..Len(generation) :
            /\ generation[i] # None
            /\ heap[generation[i]].fitness \in FitnessValues

\* C15: the steps of iterate() happen in the order sort and truncate,
\* report, regenerate, size check.  A report is made by the step that
\* follows the truncation, when the population holds the numAfterCulling
\* survivors and nothing else is alive; individuals are created only after
\* it.  So the individual reported as best is the fittest of the survivors
\* and the trajectories shown are those of exactly the survivors.
C15_ReportBetweenCutAndRefill ==
    /\ [](ValidConfig =>
            /\ bestReports = 1 =>
                    /\ reportedBest \in 1..numAfterCulling
                    /\ \A i \in 1..numAfterCulling :
                            heap[i].fitness <= heap[reportedBest].fitness
            /\ trajectoryReports = 1 =>
                    /\ reportedTrajectory = [i \in 1..numAfterCulling |-> i]
                    /\ reportedTrajectory = SubSeq(generation, 1, numAfterCulling))
    /\ [][ValidConfig =>
            /\ pc = "select" => pc' \in {"report", "raised"}
            /\ pc = "report" => pc' \in {"replenish", "raised"}
            /\ pc = "replenish" => pc' \in {"replenish", "optimize", "raised"}
            /\ (bestReports' > bestReports \/ trajectoryReports' > trajectoryReports) =>
                    /\ pc = "report"
                    /\ Len(generation) = numAfterCulling
                    /\ DOMAIN heap = Range(generation)
                    /\ generation' = generation /\ heap' = heap
            /\ DOMAIN heap' \ DOMAIN heap # {} => pc = "replenish"
            /\ Len(generation') > Len(generation) =>
                    /\ pc = "replenish"
                    /\ Len(newIndividuals) = numToReplenish]_vars

\* C15 witness: generation 0 of a population of three has reported the
\* fittest of its two survivors and their two trajectories, and has then
\* made its replacement
C15_Witness ==
    /\ numIndividuals = 3 /\ numAfterCulling = 2
    /\ pc = "replenish" /\ Len(newIndividuals) = 1 /\ newIndividuals[1] # None
    /\ bestReports = 1 /\ trajectoryReports = 1
    /\ reportedBest = 1 /\ reportedTrajectory = <<1, 2>>
    /\ heap[1].fitness > heap[2].fitness
    /\ heap[newIndividuals[1]].fitness > heap[1].fitness

\* C16 as claimed: the generation counter is 0 after construction, is g
\* during the g-th generation (counted from 0), and is numIterations - 1 when
\* optimize() has returned.
C16_AsClaimed ==
    /\ iterateCalls = 0 /\ pc = "optimize" => numGeneration = 0
    /\ iterateCalls > 0 /\ pc # "done" => numGeneration = iterateCalls - 1
    /\ pc = "done" => numGeneration = numIterations - 1

\* C16 amended: the generation counter is 0 after construction and is g
\* during the whole of the g-th generation (counted from 0): it changes only
\* where optimize() starts the next iterate() call, and then by exactly 1.
\* When optimize() has returned it is numIterations - 1 if numIterations >= 1,
\* and still 0 if numIterations = 0.  The survivors of a selection are
\* the first numAfterCulling of the population sorted by fitness and a parent
\* is an element of the population, whatever the counter is.
C16_CounterFollowsLoop ==
    /\ [](/\ iterateCalls = 0 => numGeneration = 0
          /\ iterateCalls > 0 => numGeneration = iterateCalls - 1
          /\ pc = "done" =>
                numGeneration = (IF numIterations >= 1 THEN numIterations - 1 ELSE 0))
    /\ [][/\ numGeneration' # numGeneration =>
                /\ numGeneration' = numGeneration + 1
                /\ pc = "optimize" /\ pc' = "select"
          /\ (pc = "select" /\ pc' = "report") =>
                selected' = Truncate(SortByFitness(heap, generation), numAfterCulling)
          /\ Len(parents') > Len(parents) =>
                parents'[Len(parents')] \in Range(generation) \cup {None}]_vars

\* C16 witness: optimize() has returned after generations 0 and 1, the counter
\* holds 1
C16_Witness ==
    /\ pc = "done" /\ Running /\ numIterations = 2
    /\ iterateCalls = 2 /\ numGeneration = 1

\* C17: for every iterate() call that ends normally, the highest fitness in
\* the population at its end is at least the highest fitness in the
\* population at its start, whatever fitness the replacements have.
C17_BestNeverDecreases ==
    IterateEnded => BestFitness(heap, generation) >= startBest

\* C17 witness: the second iterate() call has ended; every replacement it
\* made is less fit than the best individual it started with, and the best
\* fitness is what it was
C17_Witness ==
    /\ ValidConfig /\ pc = "optimize" /\ iterateCalls = 2
    /\ startBest > 0
    /\ \A i \in (numAfterCulling + 1)..numIndividuals :
            /\ generation[i] # None
            /\ heap[generation[i]].fitness < startBest
    /\ BestFitness(heap, generation) = startBest

\* where x stands in a list without repetitions
Position(s, x) == CHOOSE i \in 1..Len(s) : s[i] = x

\* C18: the selection breaks ties by position: of two individuals of equal
\* fitness the one that stood earlier in the population before the sort
\* comes first after it, so at the cut-off the earlier ones survive.  The
\* survivors of the previous generation stand before the replacements, so a
\* replacement that only equals a previous survivor in fitness never
\* displaces it.
C18_TiesKeepEarlier ==
    [][(pc = "select" /\ pc' = "report") =>
        /\ \A k \in Range(selected'), d \in Range(culled') :
                heap[k].fitness = heap[d].fitness =>
                    Position(generation, k) < Position(generation, d)
        /\ \A i, j \in 1..Len(selected') :
                (i < j /\ heap[selected'[i]].fitness = heap[selected'[j]].fitness) =>
                    Position(generation, selected'[i]) < Position(generation, selected'[j])
        /\ (ValidConfig /\ iterateCalls >= 2) =>
                \A k \in Range(selected'), d \in Range(culled') :
                    (k > numAfterCulling /\ d <= numAfterCulling) =>
                        heap[k].fitness > heap[d].fitness]_vars

\* C18 witness: the second selection of a population of three kept its one
\* previous survivor and dropped both replacements, one of which has the
\* survivor's fitness
C18_Witness ==
    /\ numIndividuals = 3 /\ numAfterCulling = 1
    /\ pc = "report" /\ iterateCalls = 2
    /\ selected = <<1>>
    /\ \E d \in tiedCulled : d > numAfterCulling
    /\ Range(culled) = {2, 3} /\ tiedCulled # Range(culled)

\* C19: when mutate raises during the regeneration nothing is rolled back:
\* self.generation is left holding exactly the survivors of that generation's
\* selection, in their sorted order and as they were constructed; it holds
\* none of the individuals dropped by the selection and none of the
\* replacements made before the failure, and the generation counter is the
\* index of the generation that failed.
C19_FailureLeavesSurvivors ==
    error = "CollaboratorError" =>
        /\ pc = "raised"
        /\ Len(generation) = (IF numAfterCulling >= 0
                              THEN Min(numAfterCulling, numIndividuals)
                              ELSE Max(0, numIndividuals + numAfterCulling))
        /\ generation = [i \in 1..Len(generation) |-> i]
        /\ IsDescending(heap, generation)
        /\ eliteMin = MinFitness(heap, generation)
        /\ \A i \in Range(generation) : heap[i] = born[i]
        /\ Range(generation) \cap Range(newIndividuals) = {}
        /\ DOMAIN heap = Range(generation) \cup (Range(newIndividuals) \ {None})
        /\ Len(newIndividuals) < numToReplenish
        /\ numGeneration = iterateCalls - 1
        /\ rangeNext = iterateCalls

\* C19 witness: in generation 1 of a population of three with one survivor,
\* mutate raised after one replacement had been made; the population holds
\* the survivor alone
C19_Witness ==
    /\ error = "CollaboratorError" /\ pc = "raised"
    /\ numIndividuals = 3 /\ numAfterCulling = 1
    /\ numGeneration = 1 /\ iterateCalls = 2
    /\ generation = <<1>>
    /\ Len(newIndividuals) = 1 /\ newIndividuals[1] # None

====
